---- MODULE Spec2Model ----
(***************************************************************************)
(* Model of src/FastAPI/main.py: the GET /analysis handler analyze_figma   *)
(* (configuration check, design-file fetch, extract_figma_summary, the     *)
(* streamed generative-text call, the PDF pagination loop and the final    *)
(* response).  One request is followed from entry to return.               *)
(*                                                                         *)
(* Python values are modelled as tagged records so that None, strings,     *)
(* dicts and lists can be told apart.  A dict is a sequence of <<key,      *)
(* value>> pairs in insertion order (Python dicts keep insertion order,    *)
(* and list(d.keys())[:10] depends on it).  Text is a sequence of          *)
(* one-character strings.                                                  *)
(***************************************************************************)
EXTENDS Integers, Sequences, FiniteSets, TLC

VARIABLES
    FIGMA_TOKEN,      \* module global, os.getenv("FIGMA_TOKEN")
    FILE_KEY,         \* module global, os.getenv("FILE_KEY")
    GEMINI_API_KEY,   \* module global, os.getenv("GEMINI_API_KEY")
    figma_service,    \* what the design-file service answers to the GET
    gemini_service,   \* what the generative-text service streams back
    pc,               \* position of the handler
    calls,            \* outbound network calls issued by this request, in order
    figma_json,       \* local of analyze_figma
    figma_summary,    \* local of analyze_figma
    chunk_idx,        \* number of chunks taken from the response iterator
    analysis_text,    \* local of analyze_figma
    lines,            \* analysis_text.split("\n"), the sequence the for loop walks
    line_idx,         \* number of lines the for loop has handled
    y_position,       \* local of analyze_figma
    pdf,              \* the canvas: finished pages, current page, current font
    result            \* what the handler returned (or the exception that left it)

vars == << FIGMA_TOKEN, FILE_KEY, GEMINI_API_KEY, figma_service, gemini_service,
           pc, calls, figma_json, figma_summary, chunk_idx, analysis_text,
           lines, line_idx, y_position, pdf, result >>

(***************************************************************************)
(* Bounds of the explored inputs.                                          *)
(***************************************************************************)
MaxPages == 2
MaxFrames == 25
MaxStyleKeys == 12
MaxChunks == 3
RunLen == 45
NewlineRun == 55

(***************************************************************************)
(* Python / JSON values.                                                   *)
(***************************************************************************)
None == [kind |-> "null"]
JStr(s) == [kind |-> "string", val |-> s]
JObj(pairs) == [kind |-> "object", val |-> pairs]
JArr(items) == [kind |-> "array", val |-> items]

\* Python truthiness: None, "", {} and [] are falsy.
Truthy(v) ==
    CASE v.kind = "null" -> FALSE
      [] v.kind = "string" -> v.val # ""
      [] OTHER -> Len(v.val) > 0

HasKey(d, k) == \E i \in 1..Len(d.val) : d.val[i][1] = k

\* Faulty variant: dict.get(k), the default dropped.
GetNoDefault(d, k, default) ==
    IF HasKey(d, k)
    THEN d.val[CHOOSE i \in 1..Len(d.val) : d.val[i][1] = k][2]
    ELSE None

\* dict.get(k, default)
Get(d, k, default) ==
    IF HasKey(d, k)
    THEN d.val[CHOOSE i \in 1..Len(d.val) : d.val[i][1] = k][2]
    ELSE default

\* list(d.keys())
Keys(d) == [i \in 1..Len(d.val) |-> d.val[i][1]]

Min(a, b) == IF a < b THEN a ELSE b

\* s[:n]
Prefix(s, n) == SubSeq(s, 1, Min(n, Len(s)))

(***************************************************************************)
(* extract_figma_summary (main.py 81-114).                                 *)
(***************************************************************************)
FrameLimit == 20
StyleLimit == 10

\* Faulty variant: the slice dropped.
NoSlice(s, n) == s

\* page.get("children", [])[:20]
FirstFrames(s, n) == Prefix(s, n)

\* list(mapping.keys())[:10]
FirstKeys(s, n) == Prefix(s, n)

frame_info(child) ==
    [ name |-> Get(child, "name", None),
      type |-> Get(child, "type", None),
      background |-> Get(child, "backgroundColor", None) ]

page_info(page) ==
    LET children == FirstFrames(Get(page, "children", JArr(<<>>)).val, FrameLimit)
    IN [ name |-> Get(page, "name", None),
         type |-> Get(page, "type", None),
         frames |-> [i \in 1..Len(children) |-> frame_info(children[i])] ]

\* The accesses of extract_figma_summary that raise: .get on a value that is
\* no dict, iterating or slicing a value that is no list, .keys() on a truthy
\* value that is no dict.
ExtractRaises(data) ==
    LET doc == IF data.kind = "object" THEN Get(data, "document", JObj(<<>>)) ELSE None
    IN \/ data.kind # "object"
       \/ doc.kind # "object"
       \/ /\ doc.kind = "object"
          /\ LET pages == Get(doc, "children", JArr(<<>>))
             IN \/ pages.kind # "array"
                \/ /\ pages.kind = "array"
                   /\ \E i \in 1..Len(pages.val) :
                        \/ pages.val[i].kind # "object"
                        \/ /\ pages.val[i].kind = "object"
                           /\ Get(pages.val[i], "children", JArr(<<>>)).kind # "array"
       \/ /\ Truthy(Get(data, "styles", None))
          /\ Get(data, "styles", JObj(<<>>)).kind # "object"
       \/ /\ Truthy(Get(data, "componentSets", None))
          /\ Get(data, "componentSets", JObj(<<>>)).kind # "object"

extract_figma_summary(data) ==
    LET doc == Get(data, "document", JObj(<<>>))
        pages == Get(doc, "children", JArr(<<>>)).val
    IN [ name |-> Get(data, "name", JStr("Unknown")),
         version |-> Get(data, "version", JStr("Unknown")),
         pages |-> [i \in 1..Len(pages) |-> page_info(pages[i])],
         styles |->
           [ colors |->
               IF Truthy(Get(data, "styles", None))
               THEN FirstKeys(Keys(Get(data, "styles", JObj(<<>>))), StyleLimit)
               ELSE <<>>,
             text_styles |->
               IF Truthy(Get(data, "componentSets", None))
               THEN FirstKeys(Keys(Get(data, "componentSets", JObj(<<>>))), StyleLimit)
               ELSE <<>> ] ]

(***************************************************************************)
(* Text: split on "\n", line truncation, chunk accumulation.               *)
(***************************************************************************)
Rep(c, n) == [i \in 1..n |-> c]

\* The positions of the separators of text, ascending.
Breaks(text) == SelectSeq([i \in 1..Len(text) |-> i], LAMBDA i : text[i] = "\n")

\* analysis_text.split("\n"): the pieces between consecutive separators; one
\* more piece than there are separators, so "" splits to [""].
Split(text) ==
    LET nl == Breaks(text)
        m == Len(nl)
    IN [k \in 1..(m + 1) |->
          SubSeq(text,
                 IF k = 1 THEN 1 ELSE nl[k - 1] + 1,
                 IF k = m + 1 THEN Len(text) ELSE nl[k] - 1)]

WidthThreshold == 90
KeptChars == 87
Ellipsis == << ".", ".", "." >>

\* Faulty variant: len(line) >= 90.
TruncateAt90(line) ==
    IF Len(line) >= WidthThreshold THEN Prefix(line, KeptChars) \o Ellipsis ELSE line

\* Faulty variant: line[:90], no marker.
CutNoMarker(line) ==
    IF Len(line) > WidthThreshold THEN Prefix(line, WidthThreshold) ELSE line

\* if len(line) > 90: line = line[:87] + "..."
Truncate(line) ==
    IF Len(line) > WidthThreshold THEN Prefix(line, KeptChars) \o Ellipsis ELSE line

\* Faulty variant: analysis_text = chunk.text.
OverwriteText(text, chunk) == chunk

\* if chunk.text: analysis_text += chunk.text
AddChunk(text, chunk) == IF Len(chunk) > 0 THEN text \o chunk ELSE text

(***************************************************************************)
(* The canvas: draw-text-at-coordinates and page-break commands.           *)
(***************************************************************************)
DefaultFont == << "Helvetica", 12 >>
Canvas == [ pages |-> <<>>, page |-> <<>>, font |-> DefaultFont ]
setFont(c, name, size) == [c EXCEPT !.font = << name, size >>]
drawString(c, x, y, text) ==
    [c EXCEPT !.page = Append(@, [x |-> x, y |-> y, text |-> text, font |-> c.font])]
showPage(c) == [ pages |-> Append(c.pages, c.page), page |-> <<>>, font |-> DefaultFont ]
save(c) == IF Len(c.page) > 0 THEN showPage(c) ELSE c

LeftMargin == 40
TitleY == 800
TitleSize == 16
BodySize == 10
FirstPageTop == 770
NextPageTop == 800
BottomMargin == 50
LineSpacing == 15
Title == "Figma Design Analysis Report"

\* Faulty variant: y_position = 770 after a page break.
SameTopAsFirstPage == FirstPageTop

\* y_position = 800 after pdf.showPage()
TopAfterBreak == NextPageTop

\* Faulty variant: a new page only once the offset has left the page.
BreakOffPage(y) == y < 0

\* if y_position < 50
NeedsPageBreak(y) == y < BottomMargin

(***************************************************************************)
(* Handler results.                                                        *)
(***************************************************************************)
NoResult == [ kind |-> "none" ]
ErrorPayload(msg) == [ kind |-> "json", error |-> msg ]
PdfResponse(c) ==
    [ kind |-> "response", media_type |-> "application/pdf",
      disposition |-> "attachment; filename=figma_analysis.pdf", content |-> c.pages ]
Uncaught(exc) == [ kind |-> "exception", exc |-> exc ]

(***************************************************************************)
(* Inputs: configuration values, design-file answers, generated streams.   *)
(***************************************************************************)
EnvValues == { None, JStr(""), JStr("set") }

Opt(present, pair) == IF present THEN << pair >> ELSE <<>>

\* A frame node; every second frame carries no backgroundColor.
Frame(i) ==
    JObj(<< << "id", JStr(ToString(i)) >>,
            << "name", JStr(ToString(i)) >>,
            << "type", JStr("FRAME") >> >>
         \o Opt(i % 2 = 0, << "backgroundColor", JObj(<< << "r", JStr("1") >> >>) >>)
         \o << << "children", JArr(<< JObj(<< << "name", JStr("nested") >> >>) >>) >> >>)

\* n < 0: a page node without a children key.
PageNode(n) ==
    JObj(<< << "name", JStr("Page") >>, << "type", JStr("CANVAS") >> >>
         \o Opt(n >= 0, << "children", JArr([i \in 1..n |-> Frame(i)]) >>))

FrameCounts == { -1, 0, FrameLimit, MaxFrames }

PageLists == UNION { [1..n -> FrameCounts] : n \in 0..MaxPages }

DocumentValues ==
    { JObj(<< << "id", JStr("0:0") >>, << "children", JArr([i \in 1..Len(p) |-> PageNode(p[i])]) >> >>)
        : p \in PageLists }
    \cup { JObj(<< << "id", JStr("0:0") >> >>), None }

\* n < 0: the mapping is absent; otherwise a mapping of n keys.
KeyCounts == { -1, 0, StyleLimit, StyleLimit + 1, MaxStyleKeys }

Mapping(n) == JObj([i \in 1..n |-> << ToString(i), JObj(<< << "name", JStr("style") >> >>) >>])

\* Which of name / version the document carries.
NameVersion == { << TRUE, TRUE >>, << FALSE, TRUE >>, << FALSE, FALSE >> }

DesignDocument(nv, hasDoc, doc, nStyles, nSets) ==
    JObj(Opt(nv[1], << "name", JStr("App") >>)
         \o Opt(nv[2], << "version", JStr("42") >>)
         \o Opt(hasDoc, << "document", doc >>)
         \o Opt(nStyles >= 0, << "styles", Mapping(nStyles) >>)
         \o Opt(nSets >= 0, << "componentSets", Mapping(nSets) >>))

\* Sizes of the styles and componentSets mappings, taken together.
KeyCountPairs ==
    { << n, n >> : n \in KeyCounts }
    \cup { << -1, MaxStyleKeys >>, << MaxStyleKeys, -1 >>, << 0, StyleLimit + 1 >> }

DocSet ==
    { DesignDocument(nv, TRUE, d, k[1], k[2])
        : nv \in NameVersion, d \in DocumentValues, k \in KeyCountPairs }
    \cup { DesignDocument(nv, FALSE, None, k[1], k[2])
        : nv \in NameVersion, k \in KeyCountPairs }

\* 2 pages of MaxFrames frames each.
SampleDoc == DesignDocument(<< TRUE, TRUE >>, TRUE,
                 JObj(<< << "children", JArr(<< PageNode(MaxFrames), PageNode(MaxFrames) >>) >> >>),
                 MaxStyleKeys, MaxStyleKeys)

Answer(status, isJson, body) ==
    [ raises |-> FALSE, status_code |-> status, is_json |-> isJson, body |-> body ]
ConnectionError ==
    [ raises |-> TRUE, status_code |-> 0, is_json |-> FALSE, body |-> None ]

FigmaError == JObj(<< << "status", JStr("error") >>, << "err", JStr("Not found") >> >>)

FailedAnswers ==
    { ConnectionError,
      Answer(200, FALSE, None),
      Answer(200, TRUE, JArr(<<>>)),
      Answer(204, FALSE, None),
      Answer(403, TRUE, FigmaError),
      Answer(404, TRUE, FigmaError),
      Answer(500, FALSE, None) }

Stream(chunks) == [ chunks |-> chunks, fails |-> FALSE, after |-> 0, error |-> "" ]
FailingStream(chunks, k) ==
    [ chunks |-> chunks, fails |-> TRUE, after |-> k, error |-> "429 quota exceeded" ]

Hello == << << "H", "e", "l", "l", "o", " " >>, << "W", "o", "r", "l", "d" >>, << "!" >> >>

ChunkTexts ==
    { <<>>, << "a", "\n", "b" >>, Rep("x", RunLen), Rep("\n", NewlineRun) }

Streams == UNION { [1..n -> ChunkTexts] : n \in 0..MaxChunks }

AllSet == /\ FIGMA_TOKEN = JStr("set")
          /\ FILE_KEY = JStr("set")
          /\ GEMINI_API_KEY = JStr("set")

Init ==
    /\ \/ /\ FIGMA_TOKEN \in EnvValues
          /\ FILE_KEY \in EnvValues
          /\ GEMINI_API_KEY \in EnvValues
          /\ figma_service = Answer(200, TRUE, SampleDoc)
          /\ gemini_service = Stream(Hello)
       \/ /\ AllSet
          /\ figma_service \in FailedAnswers
          /\ gemini_service = Stream(Hello)
       \/ /\ AllSet
          /\ figma_service \in { Answer(200, TRUE, d) : d \in DocSet }
          /\ gemini_service = Stream(<< << "o", "k" >> >>)
       \/ /\ AllSet
          /\ figma_service = Answer(200, TRUE, SampleDoc)
          /\ gemini_service \in { Stream(c) : c \in Streams }
       \/ /\ AllSet
          /\ figma_service = Answer(200, TRUE, SampleDoc)
          /\ gemini_service \in { FailingStream(Hello, k) : k \in 0..Len(Hello) }
    /\ pc = "validate"
    /\ calls = <<>>
    /\ figma_json = None
    /\ figma_summary = None
    /\ chunk_idx = 0
    /\ analysis_text = <<>>
    /\ lines = <<>>
    /\ line_idx = 0
    /\ y_position = 0
    /\ pdf = Canvas
    /\ result = NoResult

(***************************************************************************)
(* analyze_figma, step by step.                                            *)
(***************************************************************************)
\* Faulty variant: the check of /fetch, which ignores GEMINI_API_KEY.
ChecksFigmaOnly == ~Truthy(FIGMA_TOKEN) \/ ~Truthy(FILE_KEY)

\* if not FIGMA_TOKEN or not FILE_KEY or not GEMINI_API_KEY
MissingEnv == ~Truthy(FIGMA_TOKEN) \/ ~Truthy(FILE_KEY) \/ ~Truthy(GEMINI_API_KEY)

\* Faulty variant: only 5xx answers count as failed.
OnlyServerErrorsFail(res) == res.status_code >= 500

\* if res.status_code != 200
FetchFailed(res) == res.status_code # 200

\* main.py 67-68
Validate ==
    /\ pc = "validate"
    /\ IF MissingEnv
       THEN /\ result' = ErrorPayload("Missing env vars")
            /\ pc' = "done"
       ELSE /\ pc' = "fetch"
            /\ UNCHANGED result
    /\ UNCHANGED << FIGMA_TOKEN, FILE_KEY, GEMINI_API_KEY, figma_service, gemini_service,
                    calls, figma_json, figma_summary, chunk_idx, analysis_text,
                    lines, line_idx, y_position, pdf >>

\* main.py 71-78: requests.get, the status check, res.json()
Fetch ==
    /\ pc = "fetch"
    /\ calls' = Append(calls, "figma")
    /\ IF figma_service.raises
       THEN /\ result' = Uncaught("requests.ConnectionError")
            /\ pc' = "done"
            /\ UNCHANGED figma_json
       ELSE IF FetchFailed(figma_service)
       THEN /\ result' = ErrorPayload("failed to fetch figma")
            /\ pc' = "done"
            /\ UNCHANGED figma_json
       ELSE IF ~figma_service.is_json
       THEN /\ result' = Uncaught("JSONDecodeError")
            /\ pc' = "done"
            /\ UNCHANGED figma_json
       ELSE /\ figma_json' = figma_service.body
            /\ pc' = "summarize"
            /\ UNCHANGED result
    /\ UNCHANGED << FIGMA_TOKEN, FILE_KEY, GEMINI_API_KEY, figma_service, gemini_service,
                    figma_summary, chunk_idx, analysis_text,
                    lines, line_idx, y_position, pdf >>

\* main.py 116
Summarize ==
    /\ pc = "summarize"
    /\ IF ExtractRaises(figma_json)
       THEN /\ result' = Uncaught("AttributeError/TypeError")
            /\ pc' = "done"
            /\ UNCHANGED figma_summary
       ELSE /\ figma_summary' = extract_figma_summary(figma_json)
            /\ pc' = "generate"
            /\ UNCHANGED result
    /\ UNCHANGED << FIGMA_TOKEN, FILE_KEY, GEMINI_API_KEY, figma_service, gemini_service,
                    calls, figma_json, chunk_idx, analysis_text,
                    lines, line_idx, y_position, pdf >>

\* main.py 119-141: the model object, the prompt, generate_content(stream=True)
Generate ==
    /\ pc = "generate"
    /\ calls' = Append(calls, "gemini")
    /\ analysis_text' = <<>>
    /\ chunk_idx' = 0
    /\ pc' = "stream"
    /\ UNCHANGED << FIGMA_TOKEN, FILE_KEY, GEMINI_API_KEY, figma_service, gemini_service,
                    figma_json, figma_summary, lines, line_idx, y_position, pdf, result >>

\* main.py 142-146: one turn of "for chunk in response", or the except clause
NextChunk ==
    /\ pc = "stream"
    /\ \/ gemini_service.fails /\ chunk_idx = gemini_service.after
       \/ chunk_idx < Len(gemini_service.chunks)
    /\ IF gemini_service.fails /\ chunk_idx = gemini_service.after
       THEN /\ result' = ErrorPayload("Gemini API error: " \o gemini_service.error)
            /\ pc' = "done"
            /\ UNCHANGED << chunk_idx, analysis_text >>
       ELSE /\ analysis_text' = AddChunk(analysis_text, gemini_service.chunks[chunk_idx + 1])
            /\ chunk_idx' = chunk_idx + 1
            /\ UNCHANGED << pc, result >>
    /\ UNCHANGED << FIGMA_TOKEN, FILE_KEY, GEMINI_API_KEY, figma_service, gemini_service,
                    calls, figma_json, figma_summary, lines, line_idx, y_position, pdf >>

\* main.py 149-160: the stream is exhausted; canvas, title, font, y_position, split
StartPdf ==
    /\ pc = "stream"
    /\ ~(gemini_service.fails /\ chunk_idx = gemini_service.after)
    /\ chunk_idx = Len(gemini_service.chunks)
    /\ pdf' = setFont(drawString(setFont(Canvas, "Helvetica-Bold", TitleSize),
                                 LeftMargin, TitleY, Title),
                      "Helvetica", BodySize)
    /\ y_position' = FirstPageTop
    /\ lines' = Split(analysis_text)
    /\ line_idx' = 0
    /\ pc' = "render"
    /\ UNCHANGED << FIGMA_TOKEN, FILE_KEY, GEMINI_API_KEY, figma_service, gemini_service,
                    calls, figma_json, figma_summary, chunk_idx, analysis_text, result >>

\* main.py 160-171: one turn of "for line in ..."
PlaceLine ==
    /\ pc = "render"
    /\ line_idx < Len(lines)
    /\ LET brk == NeedsPageBreak(y_position)
           c == IF brk THEN setFont(showPage(pdf), "Helvetica", BodySize) ELSE pdf
           y == IF brk THEN TopAfterBreak ELSE y_position
       IN /\ pdf' = drawString(c, LeftMargin, y, Truncate(lines[line_idx + 1]))
          /\ y_position' = y - LineSpacing
    /\ line_idx' = line_idx + 1
    /\ UNCHANGED << FIGMA_TOKEN, FILE_KEY, GEMINI_API_KEY, figma_service, gemini_service,
                    pc, calls, figma_json, figma_summary, chunk_idx, analysis_text,
                    lines, result >>

\* main.py 173-181: pdf.save() and the Response
SendPdf ==
    /\ pc = "render"
    /\ line_idx = Len(lines)
    /\ pdf' = save(pdf)
    /\ result' = PdfResponse(pdf')
    /\ pc' = "done"
    /\ UNCHANGED << FIGMA_TOKEN, FILE_KEY, GEMINI_API_KEY, figma_service, gemini_service,
                    calls, figma_json, figma_summary, chunk_idx, analysis_text,
                    lines, line_idx, y_position >>

Next == Validate \/ Fetch \/ Summarize \/ Generate \/ NextChunk \/ StartPdf
        \/ PlaceLine \/ SendPdf

Spec == Init /\ [][Next]_vars

(***************************************************************************)
(* Vocabulary of the properties.                                           *)
(***************************************************************************)
RECURSIVE Flatten(_)
Flatten(ss) == IF ss = <<>> THEN <<>> ELSE Head(ss) \o Flatten(Tail(ss))

BodyFont == << "Helvetica", BodySize >>

\* The lines the pagination loop drew on one page (the title is drawn in bold).
BodyItems(page) == SelectSeq(page, LAMBDA d : d.font = BodyFont)

\* Every page of the canvas, the unfinished one last.
AllPages == IF Len(pdf.page) > 0 THEN Append(pdf.pages, pdf.page) ELSE pdf.pages

BodyPages == [p \in 1..Len(AllPages) |-> BodyItems(AllPages[p])]

\* The placed lines in page-then-position order.
Placed == Flatten(BodyPages)
PlacedTexts == [i \in 1..Len(Placed) |-> Placed[i].text]

Rendering == pc = "render" \/ (pc = "done" /\ result.kind = "response")

Field(d, k) == d.val[CHOOSE i \in 1..Len(d.val) : d.val[i][1] = k][2]

Falsy(v) == v = None \/ v = JStr("")

\* C1 (as stated): when the document is returned, the placed lines, in
\* page-then-position order, are exactly the lines of the split text.
C1_ReconstructsExactly ==
    (pc = "done" /\ result.kind = "response") => PlacedTexts = lines

\* C1 (amended): the loop has placed exactly one line per element handled so
\* far, in order; a placed line equals its source line when that has at most
\* 90 characters, and is its first 87 characters followed by "..." otherwise.
\* When the document is returned every element of the split has been placed,
\* and the split has one element more than the text has line breaks.
C1_OneLinePerElement ==
    Rendering =>
        LET placed == PlacedTexts
        IN /\ Len(placed) = line_idx
           /\ Len(lines) = Cardinality({ i \in 1..Len(analysis_text) : analysis_text[i] = "\n" }) + 1
           /\ pc = "done" => line_idx = Len(lines)
           /\ \A i \in 1..Len(placed) :
                 IF Len(lines[i]) <= 90
                 THEN placed[i] = lines[i]
                 ELSE placed[i] = SubSeq(lines[i], 1, 87) \o << ".", ".", "." >>

C1_Witness ==
    /\ pc = "done" /\ result.kind = "response"
    /\ Len(lines) = 2
    /\ Len(lines[1]) = 91
    /\ lines[1][91] = "a"
    /\ PlacedTexts = << Rep("x", 87) \o << ".", ".", "." >>, << "b" >> >>

\* C2: every page of the summary has at most 20 frames (the first 20 of the
\* input page, in order), and styles.colors and styles.text_styles have at
\* most 10 entries each, however large the design document is.
C2_SummaryBounded ==
    figma_summary # None =>
        /\ \A p \in 1..Len(figma_summary.pages) :
              LET given == Field(Field(figma_json, "document"), "children").val[p]
                  n == IF HasKey(given, "children") THEN Len(Field(given, "children").val) ELSE 0
                  frames == figma_summary.pages[p].frames
              IN /\ Len(frames) <= 20
                 /\ Len(frames) = IF n < 20 THEN n ELSE 20
                 /\ \A j \in 1..Len(frames) :
                       frames[j].name = Field(Field(given, "children").val[j], "name")
        /\ Len(figma_summary.styles.colors) <= 10
        /\ Len(figma_summary.styles.text_styles) <= 10

C2_Witness ==
    /\ figma_summary # None
    /\ Len(figma_summary.pages) = 2
    /\ HasKey(Field(Field(figma_json, "document"), "children").val[1], "children")
    /\ Len(Field(Field(Field(figma_json, "document"), "children").val[1], "children").val) = 25
    /\ Len(figma_summary.pages[1].frames) = 20
    /\ HasKey(figma_json, "styles")
    /\ Len(Field(figma_json, "styles").val) > 10
    /\ Len(figma_summary.styles.colors) = 10
    /\ HasKey(figma_json, "componentSets")
    /\ Len(Field(figma_json, "componentSets").val) > 10
    /\ Len(figma_summary.styles.text_styles) = 10

\* C3: with a required configuration value absent, the request issues no
\* outbound call at any point and ends with the configuration error payload.
C3_NoCallWithoutConfig ==
    (Falsy(FIGMA_TOKEN) \/ Falsy(FILE_KEY) \/ Falsy(GEMINI_API_KEY)) =>
        /\ calls = <<>>
        /\ pc \in { "validate", "done" }
        /\ pc = "done" => result = [ kind |-> "json", error |-> "Missing env vars" ]

C3_Witness ==
    /\ FIGMA_TOKEN = JStr("set") /\ FILE_KEY = JStr("set") /\ GEMINI_API_KEY = None
    /\ pc = "done"
    /\ result = [ kind |-> "json", error |-> "Missing env vars" ]
    /\ calls = <<>>

\* C4: once the design-file service has answered with a status other than
\* 200, the request is over with {"error": "failed to fetch figma"} and the
\* generative-text service has not been called.
C4_FetchFailureStops ==
    (Len(calls) > 0 /\ ~figma_service.raises /\ figma_service.status_code # 200) =>
        /\ pc = "done"
        /\ result = [ kind |-> "json", error |-> "failed to fetch figma" ]
        /\ calls = << "figma" >>

C4_Witness ==
    /\ figma_service.status_code = 404 /\ figma_service.is_json
    /\ calls = << "figma" >>
    /\ pc = "done"
    /\ result = [ kind |-> "json", error |-> "failed to fetch figma" ]

\* C5: the handler never ends with an uncaught failure: a finished request
\* returned either the {"error": ...} payload or the binary document, and the
\* document only after fetch, summary, generation and rendering all succeeded.
C5_EveryFailureCaught ==
    pc = "done" =>
        /\ result.kind \in { "json", "response" }
        /\ result.kind = "response" =>
              /\ calls = << "figma", "gemini" >>
              /\ figma_summary # None
              /\ chunk_idx = Len(gemini_service.chunks)
              /\ line_idx = Len(lines)

\* C6: from the moment rendering begins the Analysis Text is the
\* concatenation, in arrival order, of the text of every chunk of the stream;
\* while streaming it is the concatenation of the chunks taken so far.
C6_TextIsConcatenation ==
    /\ pc = "stream" =>
          analysis_text = Flatten(SubSeq(gemini_service.chunks, 1, chunk_idx))
    /\ Rendering =>
          /\ chunk_idx = Len(gemini_service.chunks)
          /\ analysis_text = Flatten(gemini_service.chunks)

C6_Witness ==
    /\ pc = "render"
    /\ gemini_service.chunks = Hello
    /\ analysis_text = << "H", "e", "l", "l", "o", " ", "W", "o", "r", "l", "d", "!" >>

\* extract_figma_summary has been called (and has returned or raised).
Summarized ==
    \/ pc \in { "generate", "stream", "render" }
    \/ (pc = "done" /\ Len(calls) > 0 /\ figma_json # None)

\* A present key holding a value of the wrong kind (not a missing key).
Mistyped(d) ==
    \/ HasKey(d, "document") /\ Field(d, "document").kind # "object"

SomeKeyMissing(d) ==
    \/ \E k \in { "name", "version", "document", "styles", "componentSets" } : ~HasKey(d, k)
    \/ HasKey(d, "document") /\ Field(d, "document").kind = "object"
       /\ \/ ~HasKey(Field(d, "document"), "children")
          \/ \E i \in 1..Len(Field(Field(d, "document"), "children").val) :
                ~HasKey(Field(Field(d, "document"), "children").val[i], "children")

C8_SameTopOnEveryPage ==
    Rendering =>
        LET body == BodyPages
        IN \A p, q \in 1..Len(body) :
              (Len(body[p]) > 0 /\ Len(body[q]) > 0) => body[p][1].y = body[q][1].y

\* C8 (amended): the first line of page 1 is placed at offset 770 (below the
\* title drawn at 800), and the first line of every page started by a page
\* break is placed at offset 800.
C8_TopPerPage ==
    Rendering =>
        LET body == BodyPages
        IN \A p \in 1..Len(body) :
              Len(body[p]) > 0 => body[p][1].y = IF p = 1 THEN 770 ELSE 800

C8_Witness ==
    /\ Rendering
    /\ Len(BodyPages) >= 3
    /\ BodyPages[1][1].y = 770
    /\ BodyPages[2][1].y = 800
    /\ BodyPages[3][1].y = 800

\* C9: a source line of more than 90 characters is placed as a line of at
\* most 93 characters that ends with "...".
C9_LongLinesTruncated ==
    Rendering =>
        LET placed == PlacedTexts
        IN \A i \in 1..Len(placed) :
              Len(lines[i]) > 90 =>
                  /\ Len(placed[i]) <= 93
                  /\ Len(placed[i]) >= 3
                  /\ SubSeq(placed[i], Len(placed[i]) - 2, Len(placed[i])) = << ".", ".", "." >>

C9_Witness ==
    /\ Rendering
    /\ \E i \in 1..Len(PlacedTexts) :
          /\ Len(lines[i]) = 91
          /\ Len(PlacedTexts[i]) = 90
          /\ PlacedTexts[i][90] = "."
          /\ lines[i][90] = "x"

\* C10: every placed line has an offset between 50 and 800; within a page the
\* offsets go down by 15 from line to line; a page was ended only when the
\* next offset had fallen below 50; no page holds more than 51 lines.
C10_OffsetsWithinMargins ==
    Rendering =>
        LET body == BodyPages
            last == body[Len(body)]
        IN /\ \A p \in 1..Len(body) :
                 /\ Len(body[p]) <= 51
                 /\ \A i \in 1..Len(body[p]) :
                       /\ body[p][i].y >= 50
                       /\ body[p][i].y <= 800
                       /\ i > 1 => body[p][i].y = body[p][i - 1].y - 15
                 /\ p < Len(body) => body[p][Len(body[p])].y - 15 < 50
           /\ pc = "render" /\ line_idx > 0 =>
                 y_position = last[Len(last)].y - 15

C10_Witness ==
    /\ Rendering
    /\ Len(BodyPages) = 3
    /\ Len(BodyPages[1]) = 49
    /\ Len(BodyPages[2]) = 51
    /\ BodyPages[2][51].y = 50
    /\ Len(BodyPages[3]) > 0

====
